---- MODULE Spec2Model ----
(***************************************************************************)
(* LSB steganography service (backend/main.py).                            *)
(*                                                                         *)
(* hide_message embeds a text message in the least-significant bits of an  *)
(* image's channel values; extract_message reads it back.  The two HTTP    *)
(* handlers /inject and /detect call them on an uploaded image.            *)
(*                                                                         *)
(* An image is [mode, size, data]: data is the flat scan-order list of     *)
(* channel values, getdata() groups it into pixels (an int for a one-band  *)
(* mode, a tuple otherwise).  A string is the sequence of its code points. *)
(***************************************************************************)
EXTENDS Integers, Sequences, FiniteSets

\* ------------------------------------------------------------------ bounds
MaxPixels == 24
MaxLen == 3
MaxOff == 9

\* ------------------------------------------------------------ input domains
\* Image modes an upload can have, and the number of bands of each.
Modes == {"L", "LA", "RGB", "RGBA"}

Bands(mode) ==
    CASE mode = "L" -> 1
      [] mode = "LA" -> 2
      [] mode = "RGB" -> 3
      [] mode = "RGBA" -> 4

\* Code points a form message is drawn from: 'A', 0xFE, 0xFF and U+0100.
Charset == {65, 254, 255, 256}

RECURSIVE SeqsUpTo(_, _)
SeqsUpTo(S, n) ==
    IF n = 0 THEN {<<>>}
    ELSE LET shorter == SeqsUpTo(S, n - 1)
         IN  shorter \cup {Append(s, c) : s \in {t \in shorter : Len(t) = n - 1}, c \in S}

Messages == SeqsUpTo(Charset, MaxLen)

\* The 16-bit marker, as a sequence of bits.
Marker == <<1, 1, 1, 1, 1, 1, 1, 1, 1, 1, 1, 1, 1, 1, 1, 0>>

\* Upper bits of the uploaded images: the ramp 10,20,30,... (mod 256).
Shapes == {[base |-> 10, stride |-> 10]}

\* LSB layouts of the uploaded images: all 0, all 1, or the marker placed at
\* slot off after an alternating 0101... prefix and followed by zeros.
Layouts ==
    {[kind |-> "zeros", off |-> 0], [kind |-> "ones", off |-> 0]}
        \cup {[kind |-> "term", off |-> o] : o \in 0..MaxOff}

LayoutBit(layout, i) ==
    CASE layout.kind = "zeros" -> 0
      [] layout.kind = "ones" -> 1
      [] layout.kind = "term" ->
            IF i < layout.off THEN i % 2
            ELSE IF i - layout.off < 16 THEN Marker[i - layout.off + 1]
            ELSE 0

Upload(mode, size, shape, layout) ==
    [mode |-> mode,
     size |-> size,
     data |-> [s \in 1..(size * Bands(mode)) |->
                 LET v == (shape.base + shape.stride * (s - 1)) % 256
                 IN  (v - (v % 2)) + LayoutBit(layout, s - 1)]]

Uploads ==
    {Upload(mode, size, shape, layout) :
        mode \in Modes, size \in 1..MaxPixels, shape \in Shapes, layout \in Layouts}

AiAnswers == {"yes", "no"}

\* ------------------------------------------------------------- PIL helpers
\* list(img.getdata()): one entry per pixel, an int for a one-band image and
\* a tuple of the band values otherwise.
getdata(img) ==
    LET k == Bands(img.mode)
    IN  [p \in 1..img.size |->
            [isint |-> k = 1,
             ch |-> [c \in 1..k |-> img.data[(p - 1) * k + c]]]]

RECURSIVE Flatten(_)
Flatten(pixels) ==
    IF pixels = <<>> THEN <<>>
    ELSE Head(pixels).ch \o Flatten(Tail(pixels))

\* Image.new(img.mode, img.size) followed by putdata(new_pixels).
putdata(mode, size, new_pixels) ==
    [mode |-> mode, size |-> size, data |-> Flatten(new_pixels)]

\* --------------------------------------------------------------- hide_message
RECURSIVE Bin(_)
Bin(n) == IF n < 2 THEN <<n>> ELSE Append(Bin(n \div 2), n % 2)

\* format(n, 'b'): no zero padding.
FormatB(n) == Bin(n)

\* format(n, '08b'): binary digits, MSB first, zero-padded to a MINIMUM width
\* of 8; a value above 255 yields more than 8 digits.
Format08b(n) ==
    LET digits == Bin(n)
    IN  IF Len(digits) >= 8 THEN digits
        ELSE [i \in 1..(8 - Len(digits)) |-> 0] \o digits

RECURSIVE JoinFormat(_)
JoinFormat(message) ==
    IF message = <<>> THEN <<>>
    ELSE Format08b(Head(message)) \o JoinFormat(Tail(message))

\* ''.join(format(ord(c), '08b') for c in message) + '1111111111111110'
binary_message(message) == JoinFormat(message) \o Marker

\* pixel | bit: the old LSB is not cleared.
SetLSBNoClear(value, bit) == IF value % 2 = 1 THEN value ELSE value + bit

\* (value & ~1) | int(bit)
SetLSB(value, bit) == (value - (value % 2)) + bit

\* One iteration of the loop over pixels: the new pixel and msg_index after it.
\* A tuple that does not have exactly three entries fails the unpacking
\* r, g, b = pixel.
new_pixel(pixel, bits, msg_index) ==
    IF pixel.isint THEN
        IF msg_index < Len(bits)
        THEN [raised |-> FALSE,
              pixel |-> [isint |-> TRUE, ch |-> <<SetLSB(pixel.ch[1], bits[msg_index + 1])>>],
              msg_index |-> msg_index + 1]
        ELSE [raised |-> FALSE, pixel |-> pixel, msg_index |-> msg_index]
    ELSE IF Len(pixel.ch) # 3 THEN
        [raised |-> TRUE, pixel |-> pixel, msg_index |-> msg_index]
    ELSE
        LET i0 == msg_index
            r  == IF i0 < Len(bits) THEN SetLSB(pixel.ch[1], bits[i0 + 1]) ELSE pixel.ch[1]
            i1 == IF i0 < Len(bits) THEN i0 + 1 ELSE i0
            g  == IF i1 < Len(bits) THEN SetLSB(pixel.ch[2], bits[i1 + 1]) ELSE pixel.ch[2]
            i2 == IF i1 < Len(bits) THEN i1 + 1 ELSE i1
            b  == IF i2 < Len(bits) THEN SetLSB(pixel.ch[3], bits[i2 + 1]) ELSE pixel.ch[3]
            i3 == IF i2 < Len(bits) THEN i2 + 1 ELSE i2
        IN  [raised |-> FALSE,
             pixel |-> [isint |-> FALSE, ch |-> <<r, g, b>>],
             msg_index |-> i3]

\* for pixel in pixels: ... new_pixels.append(new_pixel)
RECURSIVE HideLoop(_, _, _, _)
HideLoop(pixels, bits, msg_index, new_pixels) ==
    IF pixels = <<>> THEN [raised |-> FALSE, new_pixels |-> new_pixels]
    ELSE LET step1 == new_pixel(Head(pixels), bits, msg_index)
         IN  IF step1.raised THEN [raised |-> TRUE, new_pixels |-> new_pixels]
             ELSE HideLoop(Tail(pixels), bits, step1.msg_index,
                           Append(new_pixels, step1.pixel))

\* The result of a call: either the returned image or the exception raised.
hide_message(img, message) ==
    LET loop == HideLoop(getdata(img), binary_message(message), 0, <<>>)
    IN  IF loop.raised
        THEN [raised |-> TRUE, error |-> "ValueError", img |-> img]
        ELSE [raised |-> FALSE, error |-> "",
              img |-> putdata(img.mode, img.size, loop.new_pixels)]

\* ------------------------------------------------------------ extract_message
\* for pixel in pixels: binary_message += str(... & 1) ...
RECURSIVE ExtractLoop(_, _)
ExtractLoop(pixels, bits) ==
    IF pixels = <<>> THEN [raised |-> FALSE, bits |-> bits]
    ELSE LET pixel == Head(pixels)
         IN  IF pixel.isint
             THEN ExtractLoop(Tail(pixels), Append(bits, pixel.ch[1] % 2))
             ELSE IF Len(pixel.ch) # 3 THEN [raised |-> TRUE, bits |-> bits]
             ELSE ExtractLoop(Tail(pixels),
                              bits \o <<pixel.ch[1] % 2, pixel.ch[2] % 2, pixel.ch[3] % 2>>)

delimiter == <<1, 1, 1, 1, 1, 1, 1, 1, 1, 1, 1, 1, 1, 1, 1, 0>>

Occurs(s, sub, at) ==
    /\ at + Len(sub) <= Len(s)
    /\ \A j \in 1..Len(sub) : s[at + j] = sub[j]

\* A find that reports 0 when the substring is absent.
FindOrZero(s, sub) ==
    LET hits == {at \in 0..Len(s) : Occurs(s, sub, at)}
    IN  IF hits = {} THEN 0
        ELSE CHOOSE at \in hits : \A other \in hits : at <= other

\* str.find: the lowest index at which sub occurs in s, or -1.
Find(s, sub) ==
    LET hits == {at \in 0..Len(s) : Occurs(s, sub, at)}
    IN  IF hits = {} THEN -1
        ELSE CHOOSE at \in hits : \A other \in hits : at <= other

\* int(byte, 2) of a group of one to eight bits, MSB first.
RECURSIVE IntBase2(_)
IntBase2(byte) ==
    IF byte = <<>> THEN 0
    ELSE 2 * IntBase2(SubSeq(byte, 1, Len(byte) - 1)) + byte[Len(byte)]

Min(a, b) == IF a < b THEN a ELSE b

\* A loop that stops before an incomplete trailing group.
RECURSIVE DecodeWholeGroups(_, _)
DecodeWholeGroups(bits, i) ==
    IF i + 8 > Len(bits) THEN <<>>
    ELSE <<IntBase2(SubSeq(bits, i + 1, i + 8))>> \o DecodeWholeGroups(bits, i + 8)

\* for i in range(0, len(binary_message), 8):
\*     message += chr(int(binary_message[i:i+8], 2))
RECURSIVE DecodeLoop(_, _)
DecodeLoop(bits, i) ==
    IF i >= Len(bits) THEN <<>>
    ELSE <<IntBase2(SubSeq(bits, i + 1, Min(i + 8, Len(bits))))>> \o DecodeLoop(bits, i + 8)

\* The string "No message found".
NoMessageFound ==
    <<78, 111, 32, 109, 101, 115, 115, 97, 103, 101, 32, 102, 111, 117, 110, 100>>

extract_message(img) ==
    LET loop == ExtractLoop(getdata(img), <<>>)
        end  == Find(loop.bits, delimiter)
    IN  IF loop.raised
        THEN [raised |-> TRUE, error |-> "ValueError", message |-> <<>>]
        ELSE IF end = -1
        THEN [raised |-> FALSE, error |-> "", message |-> NoMessageFound]
        ELSE [raised |-> FALSE, error |-> "",
              message |-> DecodeLoop(SubSeq(loop.bits, 1, end), 0)]

\* ------------------------------------------------------------------- state
VARIABLES
    img,        \* the uploaded image of the request
    message,    \* the form field of /inject
    hidden,     \* what hide_message returned or raised
    response,   \* the HTTP response of /inject
    extracted,  \* what extract_message returned or raised
    analysis,   \* the ai_analysis field of the /detect response
    step        \* "start", "injected", "roundtrip", "detected"

vars == <<img, message, hidden, response, extracted, analysis, step>>

NoCall == [raised |-> FALSE, error |-> "none", img |-> [mode |-> "L", size |-> 0, data |-> <<>>]]
NoExtract == [raised |-> FALSE, error |-> "none", message |-> <<>>]
NoResponse == [status_code |-> 0, media_type |-> "", headers |-> {}]

Init ==
    /\ img \in Uploads
    /\ message = <<>>
    /\ hidden = NoCall
    /\ response = NoResponse
    /\ extracted = NoExtract
    /\ analysis = ""
    /\ step = "start"

\* POST /inject: hide_message on the upload, the result saved as PNG and sent
\* back as an attachment; an exception becomes the framework's 500 response.
inject_message_endpoint(m) ==
    /\ step = "start"
    /\ message' = m
    /\ hidden' = hide_message(img, m)
    /\ response' =
          IF hidden'.raised
          THEN [status_code |-> 500, media_type |-> "text/plain", headers |-> {}]
          ELSE [status_code |-> 200, media_type |-> "image/png",
                headers |-> {"Content-Disposition"}]
    /\ step' = "injected"
    /\ UNCHANGED <<img, extracted, analysis>>

\* POST /detect on the PNG that /inject returned (PNG is lossless).
detect_hidden(a) ==
    /\ step = "injected"
    /\ ~hidden.raised
    /\ extracted' = extract_message(hidden.img)
    /\ analysis' = IF extracted'.raised THEN "" ELSE a
    /\ step' = "roundtrip"
    /\ UNCHANGED <<img, message, hidden, response>>

\* POST /detect on the upload itself.
detect_message_endpoint(a) ==
    /\ step = "start"
    /\ extracted' = extract_message(img)
    /\ analysis' = IF extracted'.raised THEN "" ELSE a
    /\ step' = "detected"
    /\ UNCHANGED <<img, message, hidden, response>>

Next ==
    \/ \E m \in Messages : inject_message_endpoint(m)
    \/ \E a \in AiAnswers : detect_hidden(a)
    \/ \E a \in AiAnswers : detect_message_endpoint(a)

Spec == Init /\ [][Next]_vars

TypeOK ==
    /\ step \in {"start", "injected", "roundtrip", "detected"}
    /\ img.mode \in Modes
    /\ Len(img.data) = img.size * Bands(img.mode)
    /\ \A s \in 1..Len(img.data) : img.data[s] \in 0..255

\* ------------------------------------------------- vocabulary of the claims
\* These restate the specification's terms by arithmetic, independently of
\* the operators above.
RECURSIVE Pow2(_)
Pow2(n) == IF n = 0 THEN 1 ELSE 2 * Pow2(n - 1)

BitCount(g) == g.size * Bands(g.mode)

InRange(m) == \A i \in 1..Len(m) : m[i] <= 255

PayloadLen(m) == 8 * Len(m) + 16

\* Bit i (from 0) of the payload: character i div 8, MSB first, then 15 ones
\* and a zero.
PayloadBit(m, i) ==
    IF i < 8 * Len(m) THEN (m[(i \div 8) + 1] \div Pow2(7 - (i % 8))) % 2
    ELSE IF i - 8 * Len(m) < 15 THEN 1 ELSE 0

MessageBits(m) == [i \in 1..(8 * Len(m)) |-> PayloadBit(m, i - 1)]

WrittenBits(m, g) == [i \in 1..Min(PayloadLen(m), BitCount(g)) |-> PayloadBit(m, i - 1)]

MarkerAt(bits, at) ==
    /\ at + 16 <= Len(bits)
    /\ \A j \in 1..15 : bits[at + j] = 1
    /\ bits[at + 16] = 0

ContainsMarker(bits) == \E at \in 0..Len(bits) : MarkerAt(bits, at)

FirstMarker(bits) ==
    CHOOSE at \in 0..Len(bits) :
        MarkerAt(bits, at) /\ \A e \in 0..(at - 1) : ~MarkerAt(bits, e)

LSBStream(g) == [s \in 1..Len(g.data) |-> g.data[s] % 2]

\* Group g (from 1) of the first end bits: its value as an unsigned integer.
RECURSIVE GroupSum(_, _, _)
GroupSum(bits, lo, hi) ==
    IF lo > hi THEN 0
    ELSE bits[lo] * Pow2(hi - lo) + GroupSum(bits, lo + 1, hi)

GroupValue(bits, g, end) == GroupSum(bits, 8 * (g - 1) + 1, Min(8 * g, end))

Decoded == step \in {"detected", "roundtrip"}

\* The image the last /detect request read.
DetectSource == IF step = "roundtrip" THEN hidden.img ELSE img

Fits == PayloadLen(message) <= BitCount(img)

Unpacks == img.mode \in {"L", "RGB"}

\* ---------------------------------------------------------------------- C1
\* C1 (as stated): on a single-channel or 3-channel grid, every message of
\* code points <= 255 that fits (8*len+16 <= bit count) is returned
\* unchanged by extract_message(hide_message(g, m)), whatever its bits are.
C1_RoundTrip ==
    (step = "roundtrip" /\ Unpacks /\ InRange(message) /\ Fits)
        => (~extracted.raised /\ extracted.message = message)

\* C1 (amended): the round trip holds when, in addition, the message's own
\* bits contain no occurrence of the 16-bit marker.
C1_RoundTripMarkerFree ==
    /\ (step \in {"injected", "roundtrip"} /\ Unpacks) => ~hidden.raised
    /\ (step = "roundtrip" /\ Unpacks /\ InRange(message) /\ Fits
            /\ ~ContainsMarker(MessageBits(message)))
          => (~extracted.raised /\ extracted.message = message)

C1_Witness ==
    /\ step = "roundtrip" /\ img.mode = "RGB" /\ Fits
    /\ message = <<65, 255>>
    /\ extracted.message = message

\* ---------------------------------------------------------------------- C2
\* C2: for a message of code points <= 255, every slot i below
\* min(8*len+16, bit count) of the grid hide_message returns has LSB equal to
\* payload bit i and the upper 7 bits of the input slot.
C2_CoveredSlots ==
    (step = "injected" /\ ~hidden.raised /\ InRange(message))
        => \A i \in 0..(Min(PayloadLen(message), BitCount(img)) - 1) :
              /\ hidden.img.data[i + 1] % 2 = PayloadBit(message, i)
              /\ hidden.img.data[i + 1] \div 2 = img.data[i + 1] \div 2

C2_Witness ==
    /\ step = "injected" /\ ~hidden.raised /\ InRange(message)
    /\ img.mode = "RGB" /\ Len(message) >= 1
    /\ \E i \in 1..Len(img.data) : img.data[i] % 2 = 1 /\ hidden.img.data[i] = img.data[i] - 1
    /\ \E i \in 1..Len(img.data) : img.data[i] % 2 = 0 /\ hidden.img.data[i] = img.data[i] + 1

\* ---------------------------------------------------------------------- C3
\* C3 (state part): hide_message returns a grid of the same pixel count and channel
\* count, never changes its input, and leaves every slot of index
\* >= 8*len(m)+16 exactly as in the input.
C3_FrameState ==
    (step = "injected" /\ ~hidden.raised)
        => /\ hidden.img.mode = img.mode
           /\ hidden.img.size = img.size
           /\ Len(hidden.img.data) = Len(img.data)
           /\ \A s \in 1..Len(img.data) :
                 s - 1 >= PayloadLen(message) => hidden.img.data[s] = img.data[s]

\* C3: the frame above holds after every /inject, and no step changes the
\* input grid.
C3_Frame == [](C3_FrameState) /\ [][img' = img]_vars

\* ---------------------------------------------------------------------- C4
\* C4: when 8*len(m)+16 exceeds the bit count, hide_message does not fail and
\* writes exactly the first bit-count bits of the payload, one per slot.
C4_Truncation ==
    (step = "injected" /\ ~Fits)
        => /\ ~hidden.raised
           /\ InRange(message) =>
                 \A s \in 1..BitCount(img) :
                    /\ hidden.img.data[s] % 2 = PayloadBit(message, s - 1)
                    /\ hidden.img.data[s] \div 2 = img.data[s] \div 2

\* ---------------------------------------------------------------------- C5
\* C5: a message with a code point above 255 makes hide_message fail with
\* EncodingRangeError, without a stego grid, and no character is ever
\* formatted to a field that is not 8 bits wide.
C5_EncodingRangeError ==
    step = "injected"
        => /\ ~InRange(message) =>
                 (hidden.raised /\ hidden.error = "EncodingRangeError")
           /\ \A i \in 1..Len(message) : Len(Format08b(message[i])) = 8

\* ---------------------------------------------------------------------- C6
\* C6: the result of the encode operation carries a truncation indication
\* exactly when 8*len(m)+16 exceeds the bit count.
TruncationIndicated ==
    \/ response.media_type # "image/png"
    \/ response.headers # {"Content-Disposition"}

C6_TruncationReported ==
    (step = "injected" /\ ~hidden.raised) => (TruncationIndicated <=> ~Fits)

\* ---------------------------------------------------------------------- C7
\* C7: on every well-formed grid whose LSB stream holds no occurrence of the
\* marker, extract_message returns "No message found" and does not raise.
C7_NotFound ==
    (Decoded /\ ~ContainsMarker(LSBStream(DetectSource)))
        => (~extracted.raised /\ extracted.message = NoMessageFound)

\* ---------------------------------------------------------------------- C8
\* C8: for every channel count k >= 1 both functions complete without
\* raising and hide_message returns pixels of k channels.
C8_AnyChannelCount ==
    /\ step = "injected"
          => /\ ~hidden.raised
             /\ hidden.img.mode = img.mode
             /\ Len(hidden.img.data) = img.size * Bands(img.mode)
    /\ Decoded => ~extracted.raised

\* ---------------------------------------------------------------------- C9
\* C9 (as stated): when the LSB stream contains the marker, the result has
\* floor(end/8) characters, one per complete 8-bit group before the first
\* occurrence; an incomplete trailing group is ignored.
C9_FloorGroups ==
    (Decoded /\ ~extracted.raised /\ ContainsMarker(LSBStream(DetectSource)))
        => LET bits == LSBStream(DetectSource)
               end  == FirstMarker(bits)
           IN  /\ Len(extracted.message) = end \div 8
               /\ \A g \in 1..(end \div 8) :
                     extracted.message[g] = GroupValue(bits, g, end)

\* C9 (amended): the result has ceil(end/8) characters: one per complete
\* group and one more for an incomplete trailing group, whose code is the
\* value of its bits.  A grid whose pixels are tuples of other than three
\* channels makes extract_message raise instead.
C9_CeilGroups ==
    (Decoded /\ ContainsMarker(LSBStream(DetectSource)))
        => LET bits == LSBStream(DetectSource)
               end  == FirstMarker(bits)
           IN  IF DetectSource.mode \in {"L", "RGB"}
               THEN /\ ~extracted.raised
                    /\ Len(extracted.message) = (end + 7) \div 8
                    /\ \A g \in 1..((end + 7) \div 8) :
                          extracted.message[g] = GroupValue(bits, g, end)
               ELSE extracted.raised

C9_Witness ==
    /\ step = "detected" /\ img.mode = "RGB" /\ ~extracted.raised
    /\ ContainsMarker(LSBStream(img))
    /\ FirstMarker(LSBStream(img)) = 9
    /\ extracted.message = <<85, 0>>

\* --------------------------------------------------------------------- C10
\* C10 (as stated): whenever 8*len(m)+16 exceeds the bit count, decoding the
\* truncated result gives "No message found", never a decoded string.
C10_TruncatedNotFound ==
    (step = "roundtrip" /\ InRange(message) /\ ~Fits)
        => (~extracted.raised /\ extracted.message = NoMessageFound)

\* C10 (amended): this holds when the payload bits that were written, the
\* first bit-count of them, contain no occurrence of the marker; hide_message
\* returns on single-channel and 3-channel grids.
C10_TruncatedMarkerFree ==
    /\ (step = "injected" /\ ~Fits) => (hidden.raised <=> ~Unpacks)
    /\ (step = "roundtrip" /\ InRange(message) /\ ~Fits
            /\ ~ContainsMarker(WrittenBits(message, img)))
          => (~extracted.raised /\ extracted.message = NoMessageFound)

C10_Witness ==
    /\ step = "roundtrip" /\ InRange(message) /\ ~Fits
    /\ img.mode = "L" /\ img.size = 12
    /\ message = <<65, 255>>
    /\ extracted.message = NoMessageFound
====
